---- MODULE Spec2Model ----
(***************************************************************************)
(* BillSnipe web API: the plan cost calculator and recommendation ranker   *)
(* of /api/plan/compare, the prediction endpoint, and the route handlers   *)
(* that read and write the Prisma store (usage import, live usage,         *)
(* savings reports, switch requests).                                      *)
(*                                                                         *)
(* Numbers.  In the calculator and the ranker kWh are whole kWh and rates   *)
(* are thousandths of a dollar per kWh (0.12 $/kWh is 120), so a cost is   *)
(* in thousandths of a dollar; quotients the code forms (cost / 3) are     *)
(* kept as the numerator, and stated by cross multiplication.  In the      *)
(* prediction route numbers are binary floating point with a scaled-down   *)
(* significand (see Float).  A timestamp is a whole number of hours since  *)
(* the epoch, in UTC; the server's local time is offset by timezone.       *)
(***************************************************************************)
EXTENDS Integers, Sequences, FiniteSets, TLC

VARIABLES
    calc,           \* the calculator under test: plan, usage series, last result
    user,           \* prisma.user: the clerk ids that have a User row
    utilityAccount, \* prisma.utilityAccount: account id -> [userId, provider, region]
    usageHour,      \* prisma.usageHour: sequence of rows, in insertion order
    planCatalog,    \* prisma.planCatalog: sequence of rows, in query order
    switchAction,   \* prisma.switchAction: sequence of rows, in insertion order
    savingsReport,  \* prisma.savingsReport: sequence of rows, in insertion order
    inflight,       \* the calls that are suspended at an await, in arrival order
    response,       \* the response of the request handled last (NoResponse at start)
    now,            \* Date.now(), in hours since the epoch
    timezone        \* the server's offset from UTC in hours (process.env.TZ)

vars == <<calc, user, utilityAccount, usageHour, planCatalog, switchAction,
          savingsReport, inflight, response, now, timezone>>

store == <<user, utilityAccount, usageHour, planCatalog, switchAction, savingsReport>>

-----------------------------------------------------------------------------
(* JavaScript values *)

\* A property that is absent from a JSON object (undefined).
Undefined == -1

\* Number.POSITIVE_INFINITY, larger than every quantity of the model.
Infinity == 1000000000

\* a || d on numbers: d when a is undefined or 0 (both are falsy).
OrDefault(a, d) == IF a = Undefined \/ a = 0 THEN d ELSE a

MathMin(a, b) == IF a <= b THEN a ELSE b

MathMax(a, b) == IF a >= b THEN a ELSE b

\* Date.prototype.getHours() of a timestamp: the hour of the server's local time.
getHours(timestamp) == (timestamp + timezone) % 24

\* usageData.reduce((sum, u) => sum + u.kWh, 0)
RECURSIVE SumKwh(_)
SumKwh(usageData) ==
    IF usageData = <<>> THEN 0
    ELSE SumKwh(SubSeq(usageData, 1, Len(usageData) - 1))
         + usageData[Len(usageData)].kWh

-----------------------------------------------------------------------------
(* Plan cost calculator: plan/compare/route.ts *)

DefaultBaseRate == 120
DefaultOffPeak == 80
DefaultMidPeak == 130
DefaultOnPeak == 180
CurrentRate == 150

\* The for loop of calculateTieredCost from tier i on, with the loop's cost and
\* remainingKwh so far.
RECURSIVE TieredLoop(_, _, _, _)
TieredLoop(tiers, i, cost, remainingKwh) ==
    IF i > Len(tiers) THEN cost
    ELSE LET tierKwh == MathMin(remainingKwh, OrDefault(tiers[i].limit, Infinity))
             cost2 == cost + tierKwh * tiers[i].rate
             remaining2 == remainingKwh - tierKwh
         IN  IF remaining2 <= 0 THEN cost2
             ELSE TieredLoop(tiers, i + 1, cost2, remaining2)

\* A loop whose `cost += ...` is `cost = ...`: the charge of the tier the
\* total ends in.
RECURSIVE LastTierLoop(_, _, _)
LastTierLoop(tiers, i, remainingKwh) ==
    IF i > Len(tiers) THEN 0
    ELSE LET tierKwh == MathMin(remainingKwh, OrDefault(tiers[i].limit, Infinity))
         IN  IF remainingKwh - tierKwh <= 0 \/ i = Len(tiers)
             THEN tierKwh * tiers[i].rate
             ELSE LastTierLoop(tiers, i + 1, remainingKwh - tierKwh)

calculateTieredCostLastTier(totalKwh, tiers) == LastTierLoop(tiers, 1, totalKwh)

calculateTieredCost(totalKwh, tiers) == TieredLoop(tiers, 1, 0, totalKwh)

\* The rate calculateTOUCost applies to a reading at the given hour.
TOURate(hour, periods) ==
    IF hour >= 7 /\ hour < 11 THEN OrDefault(periods.onPeak, DefaultOnPeak)
    ELSE IF hour >= 11 /\ hour < 17 THEN OrDefault(periods.midPeak, DefaultMidPeak)
    ELSE IF hour >= 17 /\ hour < 19 THEN OrDefault(periods.onPeak, DefaultOnPeak)
    ELSE OrDefault(periods.offPeak, DefaultOffPeak)

RECURSIVE calculateTOUCost(_, _)
calculateTOUCost(usageData, periods) ==
    IF usageData = <<>> THEN 0
    ELSE LET usage == usageData[Len(usageData)]
         IN  calculateTOUCost(SubSeq(usageData, 1, Len(usageData) - 1), periods)
             + usage.kWh * TOURate(getHours(usage.timestamp), periods)

calculatePlanCost(plan, usageData) ==
    LET schema == plan.schema
        totalKwh == SumKwh(usageData)
        baseRate == OrDefault(schema.baseRate, DefaultBaseRate)
    IN  IF schema.type = "tiered" THEN calculateTieredCost(totalKwh, schema.tiers)
        ELSE IF schema.type = "tou" THEN calculateTOUCost(usageData, schema.periods)
        ELSE totalKwh * baseRate

calculateCurrentCost(usageData) == SumKwh(usageData) * CurrentRate

-----------------------------------------------------------------------------
(* Inputs of the calculator *)

MaxReadings == 2
MaxTiers == 2

NoPeriods == [offPeak |-> Undefined, midPeak |-> Undefined, onPeak |-> Undefined]

\* The JSON of a plan's schema.  periodBoundaries are the hour ranges a
\* time-of-use plan declares, each [start, end) with the rate it maps to;
\* the route never reads them.
FlatSchema(rate) ==
    [type |-> "fixed", baseRate |-> rate, tiers |-> <<>>, periods |-> NoPeriods,
     periodBoundaries |-> <<>>]

TieredSchema(tiers) ==
    [type |-> "tiered", baseRate |-> Undefined, tiers |-> tiers, periods |-> NoPeriods,
     periodBoundaries |-> <<>>]

TOUSchema(periods) ==
    [type |-> "tou", baseRate |-> Undefined, tiers |-> <<>>, periods |-> periods,
     periodBoundaries |-> <<>>]

DeclaredTOUSchema(periods, periodBoundaries) ==
    [type |-> "tou", baseRate |-> Undefined, tiers |-> <<>>, periods |-> periods,
     periodBoundaries |-> periodBoundaries]

Range(start, end, rate) == [start |-> start, end |-> end, rate |-> rate]

\* Declared range tables: the table the route has built in, and tables whose
\* ranges overlap.
BoundaryChoices ==
    { << Range(7, 11, "onPeak"), Range(11, 17, "midPeak"), Range(17, 19, "onPeak") >>,
      << Range(6, 12, "onPeak"), Range(8, 20, "midPeak") >>,
      << Range(7, 19, "midPeak"), Range(7, 11, "onPeak") >> }

\* Tiers of the catalog: a limit of Undefined is an unbounded tier.
TierChoices ==
    { [limit |-> 100, rate |-> 100], [limit |-> Undefined, rate |-> 80],
      [limit |-> 0, rate |-> 120], [limit |-> 50, rate |-> 90] }

SeqsUpTo(S, n) == UNION { [1..k -> S] : k \in 0..n }

PeriodChoices ==
    { [offPeak |-> 80, midPeak |-> 130, onPeak |-> 180], NoPeriods }
    \cup [offPeak : {0, 60}, midPeak : {0, 110}, onPeak : {0, 200}]

CalcSchemas ==
    { FlatSchema(r) : r \in {Undefined, 0, 120, 100} }
    \cup { TieredSchema(t) : t \in SeqsUpTo(TierChoices, MaxTiers) }
    \cup { TOUSchema(p) : p \in PeriodChoices }
    \cup { DeclaredTOUSchema([offPeak |-> 60, midPeak |-> 110, onPeak |-> 200], b) :
              b \in BoundaryChoices }

CalcHours == {2, 7, 8, 11, 17, 19}
CalcKwh == {0, 2, 100}

\* No result yet.
NoCost == Undefined

-----------------------------------------------------------------------------
(* The store at rest, for the specifications that exercise pure functions *)

NoResponse == [request |-> [endpoint |-> "none"], result |-> [status |-> 0]]

EmptyStore ==
    /\ user = {}
    /\ utilityAccount = <<>>
    /\ usageHour = <<>>
    /\ planCatalog = <<>>
    /\ switchAction = <<>>
    /\ savingsReport = <<>>
    /\ inflight = <<>>
    /\ response = NoResponse
    /\ now = 0
    /\ timezone = 0

-----------------------------------------------------------------------------
(* SpecCalc: calculatePlanCost applied to a plan and a growing usage series *)

InitCalc ==
    /\ EmptyStore
    /\ \E s \in CalcSchemas :
          calc = [plan |-> [schema |-> s], usageData |-> <<>>, cost |-> NoCost]

\* One more reading enters the series; the last result no longer applies.
CalcAddReading ==
    /\ Len(calc.usageData) < MaxReadings
    /\ \E h \in CalcHours, k \in CalcKwh :
          calc' = [calc EXCEPT !.usageData = Append(@, [timestamp |-> h, kWh |-> k]),
                               !.cost = NoCost]
    /\ UNCHANGED <<store, inflight, response, now, timezone>>

CalcApply ==
    /\ calc.cost = NoCost
    /\ calc' = [calc EXCEPT !.cost = calculatePlanCost(calc.plan, calc.usageData)]
    /\ UNCHANGED <<store, inflight, response, now, timezone>>

NextCalc == CalcAddReading \/ CalcApply

SpecCalc == InitCalc /\ [][NextCalc]_vars

-----------------------------------------------------------------------------
(* Requests and responses *)

\* auth() gives no userId: the caller is not signed in.
NoUser == "none"

\* An exception that leaves a handler.
Throw(e) == [status |-> -1, thrown |-> e]

Json(status) == [status |-> status]

\* prisma.user.findUnique({ where: { clerkId } }): the User row, or null.
UserExists(userId) == userId \in user

\* prisma.utilityAccount.findFirst({ where: { id, userId } }) finds a row.
AccountOf(accountId, userId) ==
    /\ accountId \in DOMAIN utilityAccount
    /\ utilityAccount[accountId].userId = userId

-----------------------------------------------------------------------------
(* handleCompare: plan/compare/route.ts *)

TopN == 5
DefaultWindowHours == 90 * 24

\* The rows i of a sequence with keep[i], in order (the range is halved so
\* that the evaluation nests to a small depth).
SelectRows(rows, keep) ==
    LET RECURSIVE Select(_, _)
        Select(lo, hi) ==
            IF lo > hi THEN <<>>
            ELSE IF lo = hi THEN IF keep[lo] THEN <<rows[lo]>> ELSE <<>>
            ELSE Select(lo, (lo + hi) \div 2) \o Select((lo + hi) \div 2 + 1, hi)
    IN  Select(1, Len(rows))

\* Array.from(rows): the array of the values, each computed once.
ArrayFrom(rows) == SelectRows(rows, [i \in 1..Len(rows) |-> TRUE])

\* A sort that is not stable: among rows of equal key the later row goes first.
UnstableSort(rows, key) ==
    LET n == Len(rows)
        Rank(i) ==
            Cardinality({ j \in 1..n : key[j] < key[i] })
            + Cardinality({ j \in (i + 1)..n : key[j] = key[i] })
            + 1
        rank == ArrayFrom([i \in 1..n |-> Rank(i)])
    IN  ArrayFrom([k \in 1..n |-> rows[CHOOSE i \in 1..n : rank[i] = k]])

\* Array.prototype.sort under a comparator that is the difference of two keys,
\* key[i] the key of rows[i]: the sort is stable, so a row goes behind the rows
\* of smaller key and behind the earlier rows of equal key.
StableSort(rows, key) ==
    LET n == Len(rows)
        Rank(i) ==
            Cardinality({ j \in 1..n : key[j] < key[i] })
            + Cardinality({ j \in 1..(i - 1) : key[j] = key[i] })
            + 1
        rank == ArrayFrom([i \in 1..n |-> Rank(i)])
    IN  ArrayFrom([k \in 1..n |-> rows[CHOOSE i \in 1..n : rank[i] = k]])

\* orderBy: { timestamp: 'asc' }
TimestampAsc(rows) == [i \in 1..Len(rows) |-> rows[i].timestamp]

\* (a, b) => b.estimatedAnnualSavings - a.estimatedAnnualSavings
SavingsDesc(rows) == [i \in 1..Len(rows) |-> 0 - rows[i].estimatedAnnualSavings]

\* prisma.usageHour.findMany for the account between startDate and endDate
FindUsage(accountId, startDate, endDate) ==
    LET found == SelectRows(usageHour,
                     [i \in 1..Len(usageHour) |->
                         /\ usageHour[i].accountId = accountId
                         /\ usageHour[i].timestamp >= startDate
                         /\ usageHour[i].timestamp <= endDate])
    IN  StableSort(found, TimestampAsc(found))

\* A query that leaves out `active: true`.
FindPlansAnyStatus(region) ==
    SelectRows(planCatalog,
        [i \in 1..Len(planCatalog) |-> planCatalog[i].region = region])

\* prisma.planCatalog.findMany({ where: { region, active: true } })
FindPlans(region) ==
    SelectRows(planCatalog,
        [i \in 1..Len(planCatalog) |->
            planCatalog[i].region = region /\ planCatalog[i].active])

getPlanType(schema) == schema.type

\* The annualised difference without Math.max(0, ...).
AnnualSavingsUnclamped(currentCost, estimatedCost) ==
    (currentCost - estimatedCost) * 4

\* The annualisation of a saving over the analysed period.
AnnualSavings(currentCost, estimatedCost) ==
    MathMax(0, (currentCost - estimatedCost) * 4)

\* A PlanComparison whose baseline is the flat estimate for every account.
ComparisonFlatBaseline(plan, usageData, account) ==
    LET estimatedCost == calculatePlanCost(plan, usageData)
    IN  [planId |-> plan.id,
         estimatedMonthlyCost |-> [num |-> estimatedCost, den |-> 3],
         estimatedAnnualCost |-> estimatedCost * 4,
         estimatedAnnualSavings |->
             AnnualSavings(calculateCurrentCost(usageData), estimatedCost),
         planType |-> getPlanType(plan.schema)]

\* The PlanComparison of one plan; estimatedMonthlyCost is a fraction.
Comparison(plan, usageData, account) ==
    LET estimatedCost == calculatePlanCost(plan, usageData)
        currentCost == IF account.provider # "null"
                       THEN calculateCurrentCost(usageData)
                       ELSE estimatedCost
    IN  [planId |-> plan.id,
         estimatedMonthlyCost |-> [num |-> estimatedCost, den |-> 3],
         estimatedAnnualCost |-> estimatedCost * 4,
         estimatedAnnualSavings |-> AnnualSavings(currentCost, estimatedCost),
         planType |-> getPlanType(plan.schema)]

\* availablePlans.map(...)
MapComparisons(plans, usageData, account) ==
    [i \in 1..Len(plans) |-> Comparison(plans[i], usageData, account)]

\* The comparator with its operands exchanged: a.estimatedAnnualSavings - b....
SavingsAsc(rows) == [i \in 1..Len(rows) |-> rows[i].estimatedAnnualSavings]

SortComparisonsAscending(comparisons) ==
    StableSort(comparisons, SavingsAsc(comparisons))

\* comparisons.sort(...)
SortComparisons(comparisons) == StableSort(comparisons, SavingsDesc(comparisons))

\* A slice that keeps one recommendation too many.
SliceOneMore(comparisons) ==
    SubSeq(comparisons, 1, MathMin(TopN + 1, Len(comparisons)))

\* A slice that keeps the end of the ranking: comparisons.slice(-5).
SliceTail(comparisons) ==
    SubSeq(comparisons, MathMax(1, Len(comparisons) - TopN + 1), Len(comparisons))

\* comparisons.slice(0, 5)
Slice(comparisons) == SubSeq(comparisons, 1, MathMin(TopN, Len(comparisons)))

\* A start of the window that is always the default, whatever the request names.
startDateIgnored(req) == now - DefaultWindowHours

startDateOf(req) ==
    IF req.startDate # Undefined THEN req.startDate ELSE now - DefaultWindowHours

endDateOf(req) == IF req.endDate # Undefined THEN req.endDate ELSE now

handleCompare(req) ==
    IF req.userId = NoUser THEN Json(401)
    ELSE IF req.bodyUsed THEN Throw("TypeError")
    ELSE IF ~req.valid THEN Throw("ZodError")
    ELSE IF ~UserExists(req.userId) THEN Json(404)
    ELSE IF ~AccountOf(req.accountId, req.userId) THEN Json(403)
    ELSE LET account == utilityAccount[req.accountId]
             usageData == FindUsage(req.accountId, startDateOf(req), endDateOf(req))
             availablePlans == FindPlans(req.region)
             comparisons == SortComparisons(
                                MapComparisons(availablePlans, usageData, account))
         IN  [status |-> 200,
              currentPlan |->
                  [provider |-> account.provider,
                   estimatedMonthlyCost |->
                       [num |-> calculateCurrentCost(usageData), den |-> 3]],
              recommendations |-> Slice(comparisons),
              analysisPeriod |->
                  [startDate |-> startDateOf(req), endDate |-> endDateOf(req),
                   totalUsage |-> SumKwh(usageData)]]

-----------------------------------------------------------------------------
(* SpecCompare: handleCompare called with a request whose body is unread,   *)
(* over a catalog and a usage history chosen at the start                   *)

MaxPlans == 6

\* The calculator at rest.
CalcIdle ==
    [plan |-> [schema |-> FlatSchema(Undefined)], usageData |-> <<>>, cost |-> NoCost]

Hour(day, hour) == day * 24 + hour

Today == Hour(100, 0)

Users == {"u1", "u2"}

\* a1 and a2 belong to u1, a3 to u2; a2 has no provider.
Accounts ==
    [a \in {"a1", "a2", "a3"} |->
        [userId |-> IF a = "a3" THEN "u2" ELSE "u1",
         provider |-> IF a = "a2" THEN "null" ELSE "Acme Power",
         region |-> "R1"]]

PlanTemplates ==
    { [region |-> "R1", active |-> TRUE, schema |-> FlatSchema(100)],
      [region |-> "R1", active |-> TRUE,
       schema |-> TieredSchema(<<[limit |-> 100, rate |-> 100],
                                 [limit |-> Undefined, rate |-> 80]>>)],
      [region |-> "R1", active |-> FALSE, schema |-> FlatSchema(50)],
      [region |-> "R2", active |-> TRUE,
       schema |-> TOUSchema([offPeak |-> 80, midPeak |-> 130, onPeak |-> 180])] }

\* A catalog: its rows get their ids in insertion order.
Catalog(templates) ==
    [i \in 1..Len(templates) |->
        [id |-> i, region |-> templates[i].region, active |-> templates[i].active,
         schema |-> templates[i].schema]]

UsageRow(accountId, timestamp, kWh) ==
    [accountId |-> accountId, timestamp |-> timestamp, kWh |-> kWh]

UsageHistories ==
    { <<>>,
      << UsageRow("a1", Hour(95, 8), 100), UsageRow("a2", Hour(95, 8), 100) >>,
      << UsageRow("a1", Hour(95, 8), 100), UsageRow("a1", Hour(80, 2), 50),
         UsageRow("a1", Hour(5, 2), 50), UsageRow("a2", Hour(95, 12), 120),
         UsageRow("a3", Hour(95, 8), 100) >> }

\* The analysis windows a caller asks for: the default, or 30 days.
CompareWindows ==
    { [startDate |-> Undefined, endDate |-> Undefined],
      [startDate |-> Hour(70, 0), endDate |-> Hour(100, 0)] }

CompareRequests ==
    { [endpoint |-> "compare", userId |-> u, valid |-> TRUE, bodyUsed |-> FALSE,
       accountId |-> a, region |-> r, startDate |-> w.startDate,
       endDate |-> w.endDate] :
        u \in {"u1", NoUser}, a \in {"a1", "a2", "a3"}, r \in {"R1", "R2"},
        w \in CompareWindows }

InitCompare ==
    /\ calc = CalcIdle
    /\ user = Users
    /\ utilityAccount = Accounts
    /\ usageHour \in UsageHistories
    /\ planCatalog \in { Catalog(t) : t \in SeqsUpTo(PlanTemplates, MaxPlans) }
    /\ switchAction = <<>>
    /\ savingsReport = <<>>
    /\ inflight = <<>>
    /\ response = NoResponse
    /\ now = Today
    /\ timezone = 0

\* One call of the handler in each behaviour: the store does not change.
Compare(req) ==
    /\ response = NoResponse
    /\ response' = [request |-> req, result |-> handleCompare(req)]
    /\ UNCHANGED <<calc, store, inflight, now, timezone>>

NextCompare == \E req \in CompareRequests : Compare(req)

SpecCompare == InitCompare /\ [][NextCompare]_vars

-----------------------------------------------------------------------------
(* withApiMiddleware: lib/api-utils.ts *)

\* The wrapped route: rate limit, then validation of the body or query, then
\* the handler; whatever the handler throws becomes a 500.  `limited` is the
\* limiter's verdict, `valid` the schema's, `handled` the handler's result on
\* the request as validation left it.
withApiMiddleware(limited, valid, handled) ==
    IF limited THEN Json(429)
    ELSE IF ~valid THEN Json(400)
    ELSE IF handled.status = -1 THEN Json(500)
    ELSE handled

\* validateBody reads the body with req.json() before the handler runs.
AfterValidateBody(req) == [req EXCEPT !.bodyUsed = TRUE]

\* export const POST = withApiMiddleware(handleCompare, { validateBody })
PostCompare(req) ==
    withApiMiddleware(req.limited, req.valid, handleCompare(AfterValidateBody(req)))

-----------------------------------------------------------------------------
(* handleLiveUsage: usage/live/route.ts *)

\* The rows of the account with from <= timestamp < to, in insertion order.
UsageBetween(accountId, from, to) ==
    SelectRows(usageHour,
        [i \in 1..Len(usageHour) |->
            /\ usageHour[i].accountId = accountId
            /\ usageHour[i].timestamp >= from
            /\ usageHour[i].timestamp < to])

handleLiveUsage(req) ==
    IF req.userId = NoUser THEN Json(401)
    ELSE IF ~req.valid THEN Throw("ZodError")
    ELSE IF ~UserExists(req.userId) THEN Json(404)
    ELSE IF ~AccountOf(req.accountId, req.userId) THEN Json(403)
    ELSE LET currentHourStart == now
             todayStart == now - getHours(now)
             currentHourUsage == UsageBetween(req.accountId, currentHourStart,
                                              currentHourStart + 1)
             found == UsageBetween(req.accountId, now - 24, Infinity)
             last24Hours == StableSort(found, TimestampAsc(found))
             todayUsage == UsageBetween(req.accountId, todayStart, Infinity)
             yesterdayUsage == UsageBetween(req.accountId, todayStart - 24, todayStart)
             todayTotal == SumKwh(todayUsage)
             currentKWh == IF currentHourUsage = <<>> THEN 0
                           ELSE currentHourUsage[1].kWh
             hours == MathMax(1, Len(todayUsage))
         IN  [status |-> 200,
              currentHour |-> [timestamp |-> currentHourStart, kWh |-> currentKWh,
                               cost |-> currentKWh * CurrentRate],
              last24Hours |->
                  [i \in 1..Len(last24Hours) |->
                      [hour |-> getHours(last24Hours[i].timestamp),
                       kWh |-> last24Hours[i].kWh,
                       cost |-> last24Hours[i].kWh * CurrentRate]],
              todayTotal |-> [kWh |-> todayTotal, cost |-> todayTotal * CurrentRate],
              comparison |-> [yesterdayTotal |-> SumKwh(yesterdayUsage)],
              usageStatus |->
                  IF currentKWh * 2 * hours > todayTotal * 3 THEN "very_high"
                  ELSE IF currentKWh * 5 * hours > todayTotal * 6 THEN "high"
                  ELSE "normal"]

\* export const GET = withApiMiddleware(handleLiveUsage, { validateQuery })
GetLiveUsage(req) == withApiMiddleware(req.limited, req.valid, handleLiveUsage(req))

-----------------------------------------------------------------------------
(* JavaScript numbers in the prediction route: binary floating point.  Every  *)
(* operation returns the representable value nearest to the exact result,     *)
(* ties to the even significand.  The model keeps the rounding and scales the  *)
(* significand down from 53 bits to PrecisionBits; the exponent is unbounded.  *)

PrecisionBits == 12

\* The number m * 2^e.  In canonical form m is odd, or m = 0 and e = 0, so
\* that equal numbers are equal records.
Float(m, e) == [m |-> m, e |-> e]

Zero == Float(0, 0)

\* 0 / 0
NaN == Float(0, 1)

IsNaN(x) == x = NaN

Abs(a) == IF a < 0 THEN 0 - a ELSE a

Sign(a) == IF a < 0 THEN 0 - 1 ELSE 1

\* The number of binary digits of a >= 0.
RECURSIVE BitLength(_)
BitLength(a) == IF a = 0 THEN 0 ELSE 1 + BitLength(a \div 2)

RECURSIVE Canonical(_, _)
Canonical(m, e) ==
    IF m = 0 THEN Zero
    ELSE IF m % 2 = 0 THEN Canonical(m \div 2, e + 1)
    ELSE Float(m, e)

\* m * 2^e rounded to PrecisionBits significant bits, ties to even.
RoundToNearest(m, e) ==
    LET a == Abs(m)
        shift == BitLength(a) - PrecisionBits
    IN  IF shift <= 0 THEN Canonical(m, e)
        ELSE LET q == a \div (2 ^ shift)
                 r == a % (2 ^ shift)
                 half == 2 ^ (shift - 1)
                 up == r > half \/ (r = half /\ q % 2 = 1)
             IN  Canonical(Sign(m) * (IF up THEN q + 1 ELSE q), e + shift)

\* The position of the leading bit of x # 0.
Magnitude(x) == x.e + BitLength(Abs(x.m))

\* x + y.  An operand below a quarter of the other's last place changes
\* nothing.
FAdd(x, y) ==
    IF IsNaN(x) \/ IsNaN(y) THEN NaN
    ELSE IF x.m = 0 THEN y
    ELSE IF y.m = 0 THEN x
    ELSE IF Magnitude(x) - Magnitude(y) > PrecisionBits + 2 THEN x
    ELSE IF Magnitude(y) - Magnitude(x) > PrecisionBits + 2 THEN y
    ELSE LET e0 == IF x.e <= y.e THEN x.e ELSE y.e
         IN  RoundToNearest(x.m * 2 ^ (x.e - e0) + y.m * 2 ^ (y.e - e0), e0)

FNeg(x) == IF IsNaN(x) THEN NaN ELSE Float(0 - x.m, x.e)

FSub(x, y) == FAdd(x, FNeg(y))

\* x * y
FMul(x, y) ==
    IF IsNaN(x) \/ IsNaN(y) THEN NaN
    ELSE RoundToNearest(x.m * y.m, x.e + y.e)

\* x / y: the quotient to PrecisionBits + 2 bits and a sticky bit for the
\* remainder, then rounded.  0 / 0 is NaN, x / 0 an infinity.
FDiv(x, y) ==
    IF IsNaN(x) \/ IsNaN(y) THEN NaN
    ELSE IF y.m = 0 THEN IF x.m = 0 THEN NaN ELSE Float(Sign(x.m), Infinity)
    ELSE IF x.m = 0 THEN Zero
    ELSE LET k == PrecisionBits + 2 + BitLength(Abs(y.m)) - BitLength(Abs(x.m))
             num == Abs(x.m) * 2 ^ k
             q == num \div Abs(y.m)
             sticky == IF num % Abs(y.m) = 0 THEN 0 ELSE 1
         IN  RoundToNearest(Sign(x.m) * Sign(y.m) * (2 * q + sticky),
                            x.e - y.e - k - 1)

\* x < y; false when either is NaN.
FLess(x, y) == ~IsNaN(x) /\ ~IsNaN(y) /\ FSub(x, y).m < 0

\* The number an integer converts to.
FromInt(n) == RoundToNearest(n, 0)

\* The number a decimal literal n / d denotes: the nearest representable one.
Decimal(n, d) == FDiv(FromInt(n), FromInt(d))

\* a || d on numbers: d when a is 0 or NaN (both are falsy).
FOr(a, d) == IF IsNaN(a) \/ a.m = 0 THEN d ELSE a

\* Math.max(x, y)
FMax(x, y) == IF IsNaN(x) \/ IsNaN(y) THEN NaN ELSE IF FLess(x, y) THEN y ELSE x

\* Math.min(x, y)
FMin(x, y) == IF IsNaN(x) \/ IsNaN(y) THEN NaN ELSE IF FLess(y, x) THEN y ELSE x

\* Math.abs(x)
FAbs(x) == IF IsNaN(x) THEN NaN ELSE Float(Abs(x.m), x.e)

\* Math.round(x) of a number: floor(x + 1/2), an integer.
MathRound(x) ==
    IF x.e >= 0 THEN x.m * 2 ^ x.e
    ELSE IF x.m = 0 \/ Magnitude(x) < 0 - 1 THEN 0
    ELSE (x.m + 2 ^ (0 - x.e - 1)) \div (2 ^ (0 - x.e))

\* Math.round(x * 100) / 100
RoundCents(x) ==
    IF IsNaN(x) THEN NaN
    ELSE FDiv(FromInt(MathRound(FMul(x, FromInt(100)))), FromInt(100))

\* The accumulator after values[lo..hi] were added to acc one after the other,
\* in order; with orZero the accumulator is read as `acc || 0` at each step.
\* The range is halved so that the evaluation nests to a small depth; NaN + x
\* is NaN.
RECURSIVE Accumulate(_, _, _, _, _)
Accumulate(acc, values, lo, hi, orZero) ==
    IF lo > hi THEN acc
    ELSE IF lo = hi
    THEN FAdd(IF orZero THEN FOr(acc, Zero) ELSE acc, values[lo])
    ELSE LET mid == (lo + hi) \div 2
             left == Accumulate(acc, values, lo, mid, orZero)
         IN  IF IsNaN(left) /\ ~orZero THEN NaN
             ELSE Accumulate(left, values, mid + 1, hi, orZero)

\* values.reduce((a, b) => a + b, 0)
FSum(values) == Accumulate(Zero, values, 1, Len(values), FALSE)

-----------------------------------------------------------------------------
(* handlePrediction: the prediction route *)

MinDataPoints == 168

\* timestamp.toISOString().split('T')[0]: the UTC calendar date, as the number
\* of the day since the epoch.
DateOf(timestamp) == timestamp \div 24

\* The day of the week of a day number: 0 is Sunday; day 0 was a Thursday.
Weekday(day) == (day + 4) % 7

\* Date.prototype.getDay() of a timestamp: the weekday of the local date.
getDay(timestamp) == Weekday((timestamp + timezone) \div 24)

\* new Date(date).getDay() of a date string: the string is read as midnight
\* UTC, the weekday is the one of the local date at that instant.
DateGetDay(date) == getDay(date * 24)

\* predictionDate.setDate(predictionDate.getDate() + i): the same local time
\* of day, i days later.
AddDays(timestamp, i) == timestamp + 24 * i

\* values.reduce((a, b) => a + b, 0) / values.length
Average(values) == FDiv(FSum(values), FromInt(Len(values)))

\* The readings' kWh whose timestamp satisfies keep, in order.
KwhWhere(usageData, keep) ==
    LET rows == SelectRows(usageData, keep)
    IN  ArrayFrom([i \in 1..Len(rows) |-> rows[i].kWh])

\* The Map dailyUsage: date -> total, its entries in insertion order; a date's
\* total is built by dailyUsage.set(date, (dailyUsage.get(date) || 0) + kWh).
dailyUsage(usageData) ==
    LET date == [i \in 1..Len(usageData) |-> DateOf(usageData[i].timestamp)]
        first == SelectRows(usageData,
                     [i \in 1..Len(usageData) |->
                         \A j \in 1..(i - 1) : date[j] # date[i]])
    IN  ArrayFrom([k \in 1..Len(first) |->
            LET kWh == KwhWhere(usageData,
                           [i \in 1..Len(usageData) |->
                               date[i] = DateOf(first[k].timestamp)])
            IN  [date |-> DateOf(first[k].timestamp),
                 total |-> Accumulate(Zero, kWh, 1, Len(kWh), TRUE)]])

\* The Map hourlyUsage as hourlyAverages: one entry for each hour of the day
\* that has readings, in the order the hours first appear.
hourlyAverages(usageData) ==
    LET first == SelectRows(usageData,
                     [i \in 1..Len(usageData) |->
                         \A j \in 1..(i - 1) :
                            getHours(usageData[j].timestamp)
                            # getHours(usageData[i].timestamp)])
    IN  ArrayFrom([k \in 1..Len(first) |->
            LET hour == getHours(first[k].timestamp)
            IN  [hour |-> hour,
                 average |->
                     Average(KwhWhere(usageData,
                         [i \in 1..Len(usageData) |->
                             getHours(usageData[i].timestamp) = hour]))]])

\* hourlyAverages.sort((a, b) => b.average - a.average): stable, the larger
\* average first.
SortByAverageDesc(rows) ==
    LET n == Len(rows)
        Rank(i) ==
            Cardinality({ j \in 1..n : FLess(rows[i].average, rows[j].average) })
            + Cardinality({ j \in 1..(i - 1) : rows[j].average = rows[i].average })
            + 1
        rank == ArrayFrom([i \in 1..n |-> Rank(i)])
    IN  ArrayFrom([k \in 1..n |-> rows[CHOOSE i \in 1..n : rank[i] = k]])

\* The least-squares slope of the values against their 0-based index.
calculateTrend(values) ==
    LET n == Len(values)
        sumX == FSum([i \in 1..n |-> FromInt(i - 1)])
        sumY == FSum(values)
        sumXY == FSum([i \in 1..n |-> FMul(FromInt(i - 1), values[i])])
        sumX2 == FSum([i \in 1..n |-> FMul(FromInt(i - 1), FromInt(i - 1))])
    IN  FDiv(FSub(FMul(FromInt(n), sumXY), FMul(sumX, sumY)),
             FSub(FMul(FromInt(n), sumX2), FMul(sumX, sumX)))

calculateAnalytics(usageData) ==
    LET daily == dailyUsage(usageData)
        dailyValues == [k \in 1..Len(daily) |-> daily[k].total]
        sorted == SortByAverageDesc(hourlyAverages(usageData))
        isWeekend == [i \in 1..Len(usageData) |->
                         getDay(usageData[i].timestamp) \in {0, 6}]
        weekendUsage == KwhWhere(usageData, isWeekend)
        weekdayUsage == KwhWhere(usageData,
                            [i \in 1..Len(usageData) |-> ~isWeekend[i]])
    IN  [averageDailyUsage |-> Average(dailyValues),
         peakUsageHour |-> sorted[1].hour,
         lowestUsageHour |-> sorted[Len(sorted)].hour,
         weekdayAverage |-> Average(weekdayUsage),
         weekendAverage |-> Average(weekendUsage),
         monthlyTrend |-> calculateTrend(dailyValues)]

\* for (let i = 1; i <= days; i++): the values of i, in order.
Loop(days) == [k \in 1..days |-> k]

\* A confidence that grows with the distance: 0.7 + (i / days) * 0.3.
confidenceRising(i, days) ==
    FAdd(Decimal(7, 10), FMul(FDiv(FromInt(i), FromInt(days)), Decimal(3, 10)))

\* Math.max(0.5, 1 - (i / days) * 0.3)
confidenceOf(i, days) ==
    FMax(Decimal(1, 2),
         FSub(FromInt(1), FMul(FDiv(FromInt(i), FromInt(days)), Decimal(3, 10))))

\* The label of a slope.
trendOf(monthlyTrend) ==
    IF FLess(Decimal(1, 10), monthlyTrend) THEN "increasing"
    ELSE IF FLess(monthlyTrend, FNeg(Decimal(1, 10))) THEN "decreasing"
    ELSE "stable"

\* The keys of the Map dayOfWeekPatterns: the local weekdays of the readings.
PatternDays(usageData) ==
    { getDay(usageData[i].timestamp) : i \in 1..Len(usageData) }

\* dayOfWeekPatterns.get(day): the daily totals pushed under the key day, each
\* date's total under new Date(date).getDay().
PatternValues(daily, day) ==
    LET rows == SelectRows(daily,
                    [k \in 1..Len(daily) |-> DateGetDay(daily[k].date) = day])
    IN  [k \in 1..Len(rows) |-> rows[k].total]

\* baseRate: the average electricity rate.
PredictionRate == Decimal(15, 100)

\* The result is [thrown, predictions]: dayOfWeekPatterns.get(dayOfWeek)!.push
\* throws a TypeError when no reading created the key of a date's weekday.
generatePredictions(usageData, days, analytics) ==
    LET lastDate == usageData[Len(usageData)].timestamp
        daily == dailyUsage(usageData)
        keys == PatternDays(usageData)
        dayOfWeekAverages == [day \in keys |-> Average(PatternValues(daily, day))]
        predictionOf(i) ==
            LET predictionDate == AddDays(lastDate, i)
                dayOfWeek == getDay(predictionDate)
                baseUsage == IF dayOfWeek \in keys
                             THEN FOr(dayOfWeekAverages[dayOfWeek],
                                      analytics.averageDailyUsage)
                             ELSE analytics.averageDailyUsage
                trendAdjustment == FMul(analytics.monthlyTrend, FromInt(i))
                predictedKWh == FMax(Zero, FAdd(baseUsage, trendAdjustment))
            IN  [date |-> DateOf(predictionDate),
                 predictedKWh |-> RoundCents(predictedKWh),
                 confidence |-> RoundCents(confidenceOf(i, days)),
                 trend |-> trendOf(analytics.monthlyTrend),
                 estimatedCost |-> RoundCents(FMul(predictedKWh, PredictionRate))]
        loop == Loop(days)
    IN  IF \E k \in 1..Len(daily) : DateGetDay(daily[k].date) \notin keys
        THEN [thrown |-> TRUE, predictions |-> <<>>]
        ELSE [thrown |-> FALSE,
              predictions |->
                  ArrayFrom([k \in 1..Len(loop) |-> predictionOf(loop[k])])]

\* The insights, each named by its kind in place of its text.
generateInsights(analytics, predictions) ==
    LET avgPredicted ==
            Average([k \in 1..Len(predictions) |-> predictions[k].predictedKWh])
        trendChange ==
            FMul(FSub(FDiv(avgPredicted, analytics.averageDailyUsage), FromInt(1)),
                 FromInt(100))
    IN  (IF FLess(FMul(analytics.weekdayAverage, Decimal(12, 10)),
                  analytics.weekendAverage)
         THEN <<"weekend usage higher">> ELSE <<>>)
        \o (IF analytics.peakUsageHour >= 17 /\ analytics.peakUsageHour <= 21
            THEN <<"evening peak">> ELSE <<>>)
        \o (IF FLess(FromInt(5), FAbs(trendChange))
            THEN IF FLess(Zero, trendChange)
                 THEN <<"trending upward">> ELSE <<"trending downward">>
            ELSE <<>>)
        \o <<"estimated cost">>

handlePrediction(req) ==
    IF req.userId = NoUser THEN Json(401)
    ELSE IF req.bodyUsed THEN Throw("TypeError")
    ELSE IF ~req.valid THEN Throw("ZodError")
    ELSE IF ~UserExists(req.userId) THEN Json(404)
    ELSE IF ~AccountOf(req.accountId, req.userId) THEN Json(403)
    ELSE LET usageData == FindUsage(req.accountId, now - DefaultWindowHours, Infinity)
         IN  IF Len(usageData) < MinDataPoints
             THEN [status |-> 400, error |-> "Insufficient data"]
             ELSE LET analytics == calculateAnalytics(usageData)
                      generated == generatePredictions(usageData,
                                       req.predictionDays, analytics)
                  IN  IF generated.thrown THEN Throw("TypeError")
                      ELSE [status |-> 200,
                            accountId |-> req.accountId,
                            predictions |-> generated.predictions,
                            analytics |-> analytics,
                            insights |-> generateInsights(analytics,
                                             generated.predictions),
                            dataQuality |->
                                [dataPoints |-> Len(usageData),
                                 dateRange |->
                                     [start |-> usageData[1].timestamp,
                                      end |-> usageData[Len(usageData)].timestamp],
                                 completeness |->
                                     FMin(FromInt(100),
                                          FMul(FDiv(FromInt(Len(usageData)),
                                                    FromInt(90 * 24)),
                                               FromInt(100)))]]

\* export const POST = withApiMiddleware(handlePrediction, { validateBody })
PostPrediction(req) ==
    withApiMiddleware(req.limited, req.valid, handlePrediction(AfterValidateBody(req)))

-----------------------------------------------------------------------------
(* POST /api/usage/import *)

\* A schema whose kWh is z.number(), without .positive().
ImportValidAnyNumber(req) == \A i \in 1..Len(req.data) : req.data[i].kWh \in Int

\* UsageDataSchema: every kWh is z.number().positive()
ImportValid(req) == \A i \in 1..Len(req.data) : req.data[i].kWh > 0

\* validated.data.map(...)
usageRecords(req) ==
    [i \in 1..Len(req.data) |->
        UsageRow(req.accountId, req.data[i].timestamp, req.data[i].kWh)]

\* The response, and the rows prisma.usageHour.createMany adds (the UsageHour
\* table has no unique key but its id, so skipDuplicates skips nothing).
PostUsageImport(req) ==
    IF req.userId = NoUser THEN [result |-> Json(401), rows |-> <<>>]
    ELSE IF ~ImportValid(req) THEN [result |-> Json(400), rows |-> <<>>]
    ELSE IF ~UserExists(req.userId) THEN [result |-> Json(404), rows |-> <<>>]
    ELSE IF ~AccountOf(req.accountId, req.userId)
         THEN [result |-> Json(403), rows |-> <<>>]
    ELSE [result |-> [status |-> 200, success |-> TRUE,
                      imported |-> Len(usageRecords(req))],
          rows |-> usageRecords(req)]

-----------------------------------------------------------------------------
(* GET and POST /api/savings/report *)

\* No accountId in the query: searchParams.get('accountId') || undefined.
NoAccount == "undefined"

\* The rows of a table whose account belongs to the user and, when an account
\* is asked for, is that account: the handlers' whereClause.
RowsOfUser(table, userId, accountId) ==
    SelectRows(table,
        [i \in 1..Len(table) |->
            /\ utilityAccount[table[i].accountId].userId = userId
            /\ (accountId # NoAccount => table[i].accountId = accountId)])

RECURSIVE SumSavings(_)
SumSavings(reports) ==
    IF reports = <<>> THEN 0
    ELSE reports[1].savings + SumSavings(Tail(reports))

\* orderBy: { month: 'desc' }
MonthDesc(rows) == [i \in 1..Len(rows) |-> 0 - rows[i].month]

GetSavingsReport(req) ==
    IF req.userId = NoUser THEN Json(401)
    ELSE IF ~req.valid THEN Json(400)
    ELSE IF ~UserExists(req.userId) THEN Json(404)
    ELSE IF req.accountId # NoAccount /\ ~AccountOf(req.accountId, req.userId)
         THEN Json(403)
    ELSE LET found == RowsOfUser(savingsReport, req.userId, req.accountId)
             reports == StableSort(found, MonthDesc(found))
         IN  [status |-> 200,
              reports |-> reports,
              summary |-> [totalReports |-> Len(reports),
                           totalSavings |-> SumSavings(reports)]]

ReportRow(accountId, month, baseline, actual) ==
    [accountId |-> accountId, month |-> month, baseline |-> baseline,
     actual |-> actual, savings |-> baseline - actual, verified |-> FALSE]

\* CreateReportSchema: baseline and actual are z.number().positive()
ReportValid(req) == req.baseline > 0 /\ req.actual > 0

\* The response, and the row prisma.savingsReport.create adds.
PostSavingsReport(req) ==
    IF req.userId = NoUser THEN [result |-> Json(401), rows |-> <<>>]
    ELSE IF ~ReportValid(req) THEN [result |-> Json(400), rows |-> <<>>]
    ELSE IF ~UserExists(req.userId) THEN [result |-> Json(404), rows |-> <<>>]
    ELSE IF ~AccountOf(req.accountId, req.userId)
         THEN [result |-> Json(403), rows |-> <<>>]
    ELSE LET report == ReportRow(req.accountId, req.month, req.baseline, req.actual)
         IN  [result |-> [status |-> 200, success |-> TRUE, report |-> report],
              rows |-> <<report>>]

-----------------------------------------------------------------------------
(* GET and POST /api/switch/request *)

\* No status in the query.
AnyStatus == "null"

Reverse(rows) == [i \in 1..Len(rows) |-> rows[Len(rows) + 1 - i]]

GetSwitchRequests(req) ==
    IF req.userId = NoUser THEN Json(401)
    ELSE IF ~UserExists(req.userId) THEN Json(404)
    ELSE IF req.accountId # NoAccount /\ ~AccountOf(req.accountId, req.userId)
         THEN Json(403)
    ELSE LET mine == RowsOfUser(switchAction, req.userId, req.accountId)
             found == SelectRows(mine,
                          [i \in 1..Len(mine) |->
                              req.status # AnyStatus => mine[i].status = req.status])
         IN  [status |-> 200, switchRequests |-> Reverse(found)]

\* prisma.planCatalog.findFirst({ where: { id: planId, active: true } }) finds a row.
PlanAvailable(planId) ==
    \E i \in 1..Len(planCatalog) : planCatalog[i].id = planId /\ planCatalog[i].active

\* prisma.switchAction.findFirst({ where: { accountId, status: 'pending' } })
PendingRequests(accountId) ==
    SelectRows(switchAction,
        [i \in 1..Len(switchAction) |->
            switchAction[i].accountId = accountId /\ switchAction[i].status = "pending"])

\* The handler without its consent check.
PostSwitchCheckNoConsent(req) ==
    IF req.userId = NoUser THEN Json(401)
    ELSE IF ~req.valid THEN Json(400)
    ELSE IF ~UserExists(req.userId) THEN Json(404)
    ELSE IF ~AccountOf(req.accountId, req.userId) THEN Json(403)
    ELSE IF ~PlanAvailable(req.planId) THEN Json(404)
    ELSE IF PendingRequests(req.accountId) # <<>>
         THEN [status |-> 409, existingRequestId |-> PendingRequests(req.accountId)[1].id]
    ELSE [status |-> 0, next |-> "create"]

\* POST up to the await of the findFirst for a pending request: the response,
\* or "create" when the handler goes on to prisma.switchAction.create.
PostSwitchCheck(req) ==
    IF req.userId = NoUser THEN Json(401)
    ELSE IF ~req.valid THEN Json(400)
    ELSE IF ~req.consent THEN Json(400)
    ELSE IF ~UserExists(req.userId) THEN Json(404)
    ELSE IF ~AccountOf(req.accountId, req.userId) THEN Json(403)
    ELSE IF ~PlanAvailable(req.planId) THEN Json(404)
    ELSE IF PendingRequests(req.accountId) # <<>>
         THEN [status |-> 409, existingRequestId |-> PendingRequests(req.accountId)[1].id]
    ELSE [status |-> 0, next |-> "create"]

\* The row prisma.switchAction.create adds for a request.
SwitchRow(req) ==
    [id |-> Len(switchAction) + 1, accountId |-> req.accountId, planId |-> req.planId,
     status |-> "pending"]

-----------------------------------------------------------------------------
(* Spec: the routes over one store.  A handler whose awaits touch the       *)
(* tables that change (usage, reports, switch actions) at most once is one  *)
(* step; POST /api/switch/request looks for a pending request and creates   *)
(* its row in two awaits, and other requests run between them.  The         *)
(* response of a finished request is held until the client has it.          *)

MaxRows == 2

\* u3 is signed in with Clerk and has no User row.
Callers == {"u1", "u2", "u3", NoUser}

AccountIds == {"a1", "a2", "a3"}

ApiCatalog ==
    Catalog(<< [region |-> "R1", active |-> TRUE, schema |-> FlatSchema(100)],
               [region |-> "R1", active |-> FALSE, schema |-> FlatSchema(50)] >>)

ImportRequests ==
    [endpoint : {"POST /api/usage/import"}, userId : Callers, accountId : AccountIds,
     data : { <<[timestamp |-> Hour(99, 8), kWh |-> 5]>>,
              <<[timestamp |-> Hour(99, 8), kWh |-> 0 - 1]>>,
              <<[timestamp |-> Hour(99, 9), kWh |-> 3],
                [timestamp |-> Hour(99, 10), kWh |-> 0 - 2]>> }]

ComparePosts ==
    [endpoint : {"POST /api/plan/compare"}, userId : Callers, accountId : AccountIds,
     valid : BOOLEAN, limited : BOOLEAN, bodyUsed : {FALSE}, region : {"R1"},
     startDate : {Undefined}, endDate : {Undefined}]

LiveRequests ==
    [endpoint : {"GET /api/usage/live"}, userId : Callers, accountId : AccountIds,
     valid : BOOLEAN, limited : BOOLEAN]

PredictionPosts ==
    [endpoint : {"POST /api/usage/prediction"}, userId : Callers,
     accountId : AccountIds, valid : BOOLEAN, limited : BOOLEAN, bodyUsed : {FALSE},
     predictionDays : {30}]

SavingsGets ==
    [endpoint : {"GET /api/savings/report"}, userId : Callers,
     accountId : AccountIds \cup {NoAccount}, valid : BOOLEAN]

SavingsPosts ==
    [endpoint : {"POST /api/savings/report"}, userId : Callers, accountId : AccountIds,
     month : {Hour(90, 0)}, baseline : {100, 0}, actual : {80}]

SwitchGets ==
    [endpoint : {"GET /api/switch/request"}, userId : Callers,
     accountId : AccountIds \cup {NoAccount}, status : {AnyStatus, "pending"}]

SwitchPosts ==
    [endpoint : {"POST /api/switch/request"}, userId : Callers, accountId : AccountIds,
     planId : {1, 2}, consent : BOOLEAN, valid : BOOLEAN]

Init ==
    /\ calc = CalcIdle
    /\ user = Users
    /\ utilityAccount = Accounts
    /\ usageHour = <<>>
    /\ planCatalog = ApiCatalog
    /\ switchAction = <<>>
    /\ savingsReport = <<>>
    /\ inflight = <<>>
    /\ response = NoResponse
    /\ now = Today
    /\ timezone = 0

\* Rows in the tables that grow, and rows about to be created.
StoreRows == Len(usageHour) + Len(savingsReport) + Len(switchAction) + Len(inflight)

Answer(req, result) ==
    /\ response = NoResponse
    /\ response' = [request |-> req, result |-> result]

UsageImport(req) ==
    LET out == PostUsageImport(req)
    IN  /\ StoreRows + Len(out.rows) <= MaxRows
        /\ Answer(req, out.result)
        /\ usageHour' = usageHour \o out.rows
        /\ UNCHANGED <<calc, user, utilityAccount, planCatalog, switchAction,
                       savingsReport, inflight, now, timezone>>

PlanCompare(req) ==
    /\ Answer(req, PostCompare(req))
    /\ UNCHANGED <<calc, store, inflight, now, timezone>>

LiveUsage(req) ==
    /\ Answer(req, GetLiveUsage(req))
    /\ UNCHANGED <<calc, store, inflight, now, timezone>>

Prediction(req) ==
    /\ Answer(req, PostPrediction(req))
    /\ UNCHANGED <<calc, store, inflight, now, timezone>>

SavingsList(req) ==
    /\ Answer(req, GetSavingsReport(req))
    /\ UNCHANGED <<calc, store, inflight, now, timezone>>

SavingsCreate(req) ==
    LET out == PostSavingsReport(req)
    IN  /\ StoreRows + Len(out.rows) <= MaxRows
        /\ Answer(req, out.result)
        /\ savingsReport' = savingsReport \o out.rows
        /\ UNCHANGED <<calc, user, utilityAccount, usageHour, planCatalog,
                       switchAction, inflight, now, timezone>>

SwitchList(req) ==
    /\ Answer(req, GetSwitchRequests(req))
    /\ UNCHANGED <<calc, store, inflight, now, timezone>>

\* POST /api/switch/request up to its look for a pending request: either it
\* answers, or it is left waiting to create its row.
SwitchCheck(req) ==
    LET checked == PostSwitchCheck(req)
    IN  IF checked.status = 0
        THEN /\ StoreRows < MaxRows
             /\ response = NoResponse
             /\ inflight' = Append(inflight, req)
             /\ UNCHANGED <<calc, store, response, now, timezone>>
        ELSE /\ Answer(req, checked)
             /\ UNCHANGED <<calc, store, inflight, now, timezone>>

\* prisma.switchAction.create of the i-th waiting request, and its response.
SwitchCreate(i) ==
    LET req == inflight[i]
        row == SwitchRow(req)
    IN  /\ Answer(req, [status |-> 200, success |-> TRUE, switchAction |-> row])
        /\ switchAction' = Append(switchAction, row)
        /\ inflight' = SubSeq(inflight, 1, i - 1) \o SubSeq(inflight, i + 1, Len(inflight))
        /\ UNCHANGED <<calc, user, utilityAccount, usageHour, planCatalog,
                       savingsReport, now, timezone>>

\* The client has the response.
Deliver ==
    /\ response # NoResponse
    /\ response' = NoResponse
    /\ UNCHANGED <<calc, store, inflight, now, timezone>>

Next ==
    \/ \E req \in ImportRequests : UsageImport(req)
    \/ \E req \in ComparePosts : PlanCompare(req)
    \/ \E req \in LiveRequests : LiveUsage(req)
    \/ \E req \in PredictionPosts : Prediction(req)
    \/ \E req \in SavingsGets : SavingsList(req)
    \/ \E req \in SavingsPosts : SavingsCreate(req)
    \/ \E req \in SwitchGets : SwitchList(req)
    \/ \E req \in SwitchPosts : SwitchCheck(req)
    \/ \E i \in 1..Len(inflight) : SwitchCreate(i)
    \/ Deliver

Spec == Init /\ [][Next]_vars

-----------------------------------------------------------------------------
(* SpecPredict: handlePrediction called with a request whose body is        *)
(* unread, over a usage history chosen at the start                         *)

MaxDays == 8

\* The server's time zones: New York in winter, UTC, Tokyo.
Timezones == {0 - 5, 0, 9}

\* Every reading of every day is 0.1 kWh.
FlatProfile(days) == [j \in 1..days |-> Decimal(1, 10)]

\* The readings of day j are j tenths of a kWh.
RisingProfile(days) == [j \in 1..days |-> Decimal(j, 10)]

\* 0.3 kWh a reading on Saturdays and Sundays, 0.1 kWh on the other days.
WeekendProfile(days) ==
    [j \in 1..days |->
        IF Weekday(100 - days + j - 1) \in {0, 6}
        THEN Decimal(3, 10) ELSE Decimal(1, 10)]

\* A history of account a1: perDay readings on each of the last `days` days
\* before today, the readings of a day in the hours firstHour..23 in turn, each
\* reading of day j of profile[j] kWh.
History(days, perDay, firstHour, profile) ==
    [k \in 1..(days * perDay) |->
        LET j == (k - 1) \div perDay
        IN  UsageRow("a1",
                     Hour(100 - days + j,
                          firstHour + (((k - 1) % perDay) % (24 - firstHour))),
                     profile[j + 1])]

\* Hourly and daily meter readings over up to MaxDays days; 168 readings packed
\* into one day, into six days, and into the afternoons of two days; weeks of
\* hourly readings that rise, and that are higher at the weekend.
PredictHistories ==
    { History(d, n, 0, FlatProfile(d)) : d \in 1..MaxDays, n \in {1, 24} }
    \cup { History(1, MinDataPoints, 0, FlatProfile(1)),
           History(6, MinDataPoints \div 6, 0, FlatProfile(6)),
           History(2, MinDataPoints \div 2, 12, FlatProfile(2)),
           History(7, 24, 0, RisingProfile(7)),
           History(MaxDays, 24, 0, RisingProfile(MaxDays)),
           History(7, 24, 0, WeekendProfile(7)) }

PredictionRequests ==
    [endpoint : {"POST /api/usage/prediction"}, userId : {"u1", "u2", NoUser},
     accountId : {"a1", "a3"}, valid : {TRUE}, limited : {FALSE}, bodyUsed : {FALSE},
     predictionDays : {1, 30, 90}]

InitPredict ==
    /\ calc = CalcIdle
    /\ user = Users
    /\ utilityAccount = Accounts
    /\ usageHour \in PredictHistories
    /\ planCatalog = <<>>
    /\ switchAction = <<>>
    /\ savingsReport = <<>>
    /\ inflight = <<>>
    /\ response = NoResponse
    /\ now = Today
    /\ timezone \in Timezones

\* One call of the handler in each behaviour: the store does not change.
Predict(req) ==
    /\ response = NoResponse
    /\ response' = [request |-> req, result |-> handlePrediction(req)]
    /\ UNCHANGED <<calc, store, inflight, now, timezone>>

NextPredict == \E req \in PredictionRequests : Predict(req)

SpecPredict == InitPredict /\ [][NextPredict]_vars

-----------------------------------------------------------------------------
(* SpecRepeat: compare requests answered one after the other while the      *)
(* clock advances, by the handler called with an unread body and by the     *)
(* exported POST                                                            *)

MaxTicks == 2

\* Readings of a1 of which the first leaves the default window as time passes.
RepeatHistories ==
    { << UsageRow("a1", Hour(12, 8), 100), UsageRow("a1", Hour(95, 8), 50) >>,
      << UsageRow("a1", Hour(95, 8), 100), UsageRow("a3", Hour(95, 8), 100) >> }

RepeatCatalogs ==
    { Catalog(t) :
        t \in SeqsUpTo({ [region |-> "R1", active |-> TRUE, schema |-> FlatSchema(100)],
                         [region |-> "R1", active |-> TRUE,
                          schema |-> TieredSchema(<<[limit |-> 100, rate |-> 100],
                                                    [limit |-> Undefined, rate |-> 80]>>)] },
                       2) }

\* The default window, or a window named by both of its ends.
RepeatWindows ==
    { [startDate |-> Undefined, endDate |-> Undefined],
      [startDate |-> Hour(0, 0), endDate |-> Hour(100, 0)] }

\* u3 is signed in and has no User row; a3 is not an account of u1.
RepeatRequests ==
    { [endpoint |-> "compare", userId |-> u, valid |-> v, limited |-> l,
       bodyUsed |-> FALSE, accountId |-> a, region |-> "R1",
       startDate |-> w.startDate, endDate |-> w.endDate] :
        u \in {"u1", "u3", NoUser}, v \in BOOLEAN, l \in BOOLEAN, a \in {"a1", "a3"},
        w \in RepeatWindows }

InitRepeat ==
    /\ calc = CalcIdle
    /\ user = Users
    /\ utilityAccount = Accounts
    /\ usageHour \in RepeatHistories
    /\ planCatalog \in RepeatCatalogs
    /\ switchAction = <<>>
    /\ savingsReport = <<>>
    /\ inflight = <<>>
    /\ response = NoResponse
    /\ now = Today
    /\ timezone = 0

\* handleCompare answers a request; `at` is the time of the answer.
Repeat(req) ==
    /\ response' = [request |-> req, result |-> handleCompare(req), at |-> now]
    /\ UNCHANGED <<calc, store, inflight, now, timezone>>

\* The exported POST answers a request.
RepeatPost(req) ==
    /\ response' = [request |-> req, result |-> PostCompare(req), at |-> now]
    /\ UNCHANGED <<calc, store, inflight, now, timezone>>

\* Five days pass after an answer.
Tick ==
    /\ response # NoResponse
    /\ now < Today + MaxTicks * Hour(5, 0)
    /\ now' = now + Hour(5, 0)
    /\ UNCHANGED <<calc, store, inflight, response, timezone>>

NextRepeat ==
    \/ \E req \in RepeatRequests : Repeat(req)
    \/ \E req \in RepeatRequests : RepeatPost(req)
    \/ Tick

SpecRepeat == InitRepeat /\ [][NextRepeat]_vars

-----------------------------------------------------------------------------
(* SpecMiddleware: one call of a route that withApiMiddleware wraps, a step  *)
(* for each await of the wrapper.  A call is the request, the stage that is  *)
(* next, and the stages that have run.                                       *)

\* The wrapped routes and their options; rateLimit defaults to apiRateLimiter.
Routes ==
    { [endpoint |-> "POST /api/plan/compare", method |-> "POST",
       rateLimit |-> TRUE, validateBody |-> TRUE, validateQuery |-> FALSE],
      [endpoint |-> "POST /api/usage/prediction", method |-> "POST",
       rateLimit |-> TRUE, validateBody |-> TRUE, validateQuery |-> FALSE],
      [endpoint |-> "GET /api/usage/live", method |-> "GET",
       rateLimit |-> TRUE, validateBody |-> FALSE, validateQuery |-> TRUE],
      [endpoint |-> "POST subscribe", method |-> "POST",
       rateLimit |-> TRUE, validateBody |-> TRUE, validateQuery |-> FALSE],
      [endpoint |-> "DELETE subscribe", method |-> "DELETE",
       rateLimit |-> TRUE, validateBody |-> FALSE, validateQuery |-> FALSE] }

\* A request to a route: the limiter's verdict on it (or the limiter fails),
\* its body (accepted by the schema, rejected by it, or not JSON), its query,
\* and whether the handler returns a response for it or throws.
MiddlewareRequests ==
    { [endpoint |-> r.endpoint, route |-> r, limiter |-> l, body |-> b, query |-> q,
       handler |-> h] :
        r \in Routes, l \in {"ok", "limited", "throws"},
        b \in {"valid", "invalid", "malformed"}, q \in {"valid", "invalid"},
        h \in {"returns", "throws"} }

\* The call goes on to the next stage.
Proceed(call, stage, next) ==
    [call EXCEPT !.ran = Append(@, stage), !.pc = next]

\* The call ends with a response.
Respond(call, stage, status) ==
    [call EXCEPT !.ran = Append(@, stage), !.pc = "done", !.result = Json(status)]

\* if (rateLimit !== false) { ... await rateLimitMiddleware(req, rateLimit) ... }
rateLimitStage(call) ==
    IF ~call.request.route.rateLimit THEN [call EXCEPT !.pc = "validateBody"]
    ELSE IF call.request.limiter = "throws" THEN Respond(call, "rateLimit", 500)
    ELSE IF call.request.limiter = "limited" THEN Respond(call, "rateLimit", 429)
    ELSE Proceed(call, "rateLimit", "validateBody")

\* A body validation whose catch does not return on a ZodError.
validateBodyNoReturn(call) ==
    IF ~(call.request.route.validateBody /\ call.request.route.method # "GET")
    THEN [call EXCEPT !.pc = "validateQuery"]
    ELSE IF call.request.body = "malformed" THEN Respond(call, "validateBody", 500)
    ELSE Proceed(call, "validateBody", "validateQuery")

\* if (validateBody && req.method !== 'GET') { try { ... } catch ... }
validateBodyStage(call) ==
    IF ~(call.request.route.validateBody /\ call.request.route.method # "GET")
    THEN [call EXCEPT !.pc = "validateQuery"]
    ELSE IF call.request.body = "malformed" THEN Respond(call, "validateBody", 500)
    ELSE IF call.request.body = "invalid" THEN Respond(call, "validateBody", 400)
    ELSE Proceed(call, "validateBody", "validateQuery")

\* if (validateQuery) { try { ... } catch ... }
validateQueryStage(call) ==
    IF ~call.request.route.validateQuery THEN [call EXCEPT !.pc = "handler"]
    ELSE IF call.request.query = "invalid" THEN Respond(call, "validateQuery", 400)
    ELSE Proceed(call, "validateQuery", "handler")

\* return await handler(req, context), and the catch around the wrapper
handlerStage(call) ==
    IF call.request.handler = "throws" THEN Respond(call, "handler", 500)
    ELSE Respond(call, "handler", 200)

InitMiddleware ==
    /\ calc = CalcIdle
    /\ user = Users
    /\ utilityAccount = Accounts
    /\ usageHour = <<>>
    /\ planCatalog = ApiCatalog
    /\ switchAction = <<>>
    /\ savingsReport = <<>>
    /\ inflight = <<>>
    /\ response = NoResponse
    /\ now = Today
    /\ timezone = 0

\* The route is called.
Arrive(req) ==
    /\ inflight = <<>>
    /\ response = NoResponse
    /\ inflight' = << [request |-> req, pc |-> "rateLimit", ran |-> <<>>,
                       result |-> Json(0)] >>
    /\ UNCHANGED <<calc, store, response, now, timezone>>

\* The call that is suspended becomes `call`: it stays suspended at its next
\* stage, or its response goes out.
Continue(call) ==
    /\ IF call.pc = "done"
       THEN /\ inflight' = <<>>
            /\ response' = [request |-> call.request, result |-> call.result,
                            ran |-> call.ran]
       ELSE /\ inflight' = <<call>>
            /\ UNCHANGED response
    /\ UNCHANGED <<calc, store, now, timezone>>

RateLimit ==
    /\ inflight # <<>>
    /\ inflight[1].pc = "rateLimit"
    /\ Continue(rateLimitStage(inflight[1]))

ValidateBody ==
    /\ inflight # <<>>
    /\ inflight[1].pc = "validateBody"
    /\ Continue(validateBodyStage(inflight[1]))

ValidateQuery ==
    /\ inflight # <<>>
    /\ inflight[1].pc = "validateQuery"
    /\ Continue(validateQueryStage(inflight[1]))

Handler ==
    /\ inflight # <<>>
    /\ inflight[1].pc = "handler"
    /\ Continue(handlerStage(inflight[1]))

NextMiddleware ==
    \/ \E req \in MiddlewareRequests : Arrive(req)
    \/ RateLimit
    \/ ValidateBody
    \/ ValidateQuery
    \/ Handler

SpecMiddleware == InitMiddleware /\ [][NextMiddleware]_vars

-----------------------------------------------------------------------------
(* The calculator's contract, as the specification words it *)

\* A tier walk in which a tier consumes min(remaining, limit) and a tier
\* without a limit consumes all that remains.
RECURSIVE StatedTierWalk(_, _, _, _)
StatedTierWalk(tiers, i, cost, remaining) ==
    IF i > Len(tiers) THEN cost
    ELSE LET consumed == IF tiers[i].limit = Undefined THEN remaining
                         ELSE MathMin(remaining, tiers[i].limit)
         IN  IF remaining - consumed <= 0 THEN cost + consumed * tiers[i].rate
             ELSE StatedTierWalk(tiers, i + 1, cost + consumed * tiers[i].rate,
                                 remaining - consumed)

\* The range table: on-peak [7, 11) and [17, 19), mid-peak [11, 17), else off-peak.
StatedTOURate(hour, periods) ==
    IF hour \in 7..10 \/ hour \in 17..18 THEN periods.onPeak
    ELSE IF hour \in 11..16 THEN periods.midPeak
    ELSE periods.offPeak

RECURSIVE StatedTOUCost(_, _)
StatedTOUCost(usageData, periods) ==
    IF usageData = <<>> THEN 0
    ELSE StatedTOUCost(Tail(usageData), periods)
         + Head(usageData).kWh * StatedTOURate(getHours(Head(usageData).timestamp), periods)

\* The rate of the first declared range, in declaration order, that holds
\* the hour; the off-peak rate when none does.
RECURSIVE DeclaredRate(_, _, _)
DeclaredRate(hour, schema, i) ==
    IF i > Len(schema.periodBoundaries) THEN schema.periods.offPeak
    ELSE IF hour >= schema.periodBoundaries[i].start
            /\ hour < schema.periodBoundaries[i].end
    THEN schema.periods[schema.periodBoundaries[i].rate]
    ELSE DeclaredRate(hour, schema, i + 1)

RECURSIVE DeclaredTOUCost(_, _)
DeclaredTOUCost(usageData, schema) ==
    IF usageData = <<>> THEN 0
    ELSE DeclaredTOUCost(Tail(usageData), schema)
         + Head(usageData).kWh
           * DeclaredRate(getHours(Head(usageData).timestamp), schema, 1)

RECURSIVE SumLimits(_)
SumLimits(tiers) ==
    IF tiers = <<>> THEN 0 ELSE tiers[1].limit + SumLimits(Tail(tiers))

RECURSIVE SumLimitCharges(_)
SumLimitCharges(tiers) ==
    IF tiers = <<>> THEN 0
    ELSE tiers[1].limit * tiers[1].rate + SumLimitCharges(Tail(tiers))

CalcApplied == calc.cost # NoCost

\* C1: a flat-rate plan with a rate r >= 0, r = 0 included, costs exactly
\* r * (sum of the series' kWh).
C1_FlatCostIsRateTimesTotal ==
    (CalcApplied /\ calc.plan.schema.type = "fixed"
       /\ calc.plan.schema.baseRate # Undefined)
    => calc.cost = calc.plan.schema.baseRate * SumKwh(calc.usageData)

\* C2: a tiered plan costs what the tier walk over the total kWh gives, each
\* tier consuming min(remaining, limit), a limit of 0 consuming nothing.
C2_TieredCostIsTierWalk ==
    (CalcApplied /\ calc.plan.schema.type = "tiered")
    => calc.cost = StatedTierWalk(calc.plan.schema.tiers, 1, 0, SumKwh(calc.usageData))

\* C3: a time-of-use plan charges each reading the plan's rate for its hour:
\* half-open ranges, and the plan's off-peak rate for every hour outside them.
C3_TOUCostIsPerReadingRate ==
    (CalcApplied /\ calc.plan.schema.type = "tou"
       /\ calc.plan.schema.periods.offPeak # Undefined
       /\ calc.plan.schema.periods.midPeak # Undefined
       /\ calc.plan.schema.periods.onPeak # Undefined)
    => calc.cost = StatedTOUCost(calc.usageData, calc.plan.schema.periods)

\* C24: a time-of-use plan that declares hour ranges charges each reading the
\* rate of the first declared range, in declaration order, that holds the
\* reading's hour, also when the declared ranges overlap.
C24_FirstDeclaredRangeWins ==
    (CalcApplied /\ calc.plan.schema.type = "tou"
       /\ calc.plan.schema.periodBoundaries # <<>>)
    => calc.cost = DeclaredTOUCost(calc.usageData, calc.plan.schema)

\* C30: appending a reading of kWh >= 0 to the usage series never decreases
\* the cost of the plan (flat, tiered or time-of-use, rates non-negative), and
\* appending a reading of 0 kWh leaves the cost as it was.
C30_CostMonotoneInUsage ==
    [][Len(calc'.usageData) = Len(calc.usageData) + 1
       => LET before == calculatePlanCost(calc.plan, calc.usageData)
              after == calculatePlanCost(calc'.plan, calc'.usageData)
              added == calc'.usageData[Len(calc'.usageData)].kWh
          IN  /\ after >= before
              /\ added = 0 => after = before]_vars

\* The cost of a series that crosses into the second tier of a tiered plan
\* with its last reading, and exceeds the cost of the series before it.
C30_Witness ==
    /\ CalcApplied
    /\ calc.plan.schema.type = "tiered"
    /\ Len(calc.plan.schema.tiers) = 2
    /\ Len(calc.usageData) = 2
    /\ calc.usageData[2].kWh > 0
    /\ SumKwh(calc.usageData) > OrDefault(calc.plan.schema.tiers[1].limit, Infinity)
    /\ calc.usageData[1].kWh <= OrDefault(calc.plan.schema.tiers[1].limit, Infinity)
    /\ calc.cost > calculatePlanCost(calc.plan, <<calc.usageData[1]>>)

\* C10: when every tier is bounded and the limits sum to less than the total,
\* the excess is not charged: the cost is the sum of limit * rate over the tiers.
C10_ExcessBeyondLastTierNotCharged ==
    (CalcApplied /\ calc.plan.schema.type = "tiered"
       /\ \A i \in 1..Len(calc.plan.schema.tiers) :
             calc.plan.schema.tiers[i].limit # Undefined
       /\ SumLimits(calc.plan.schema.tiers) < SumKwh(calc.usageData))
    => calc.cost = SumLimitCharges(calc.plan.schema.tiers)

-----------------------------------------------------------------------------
(* The ranker's contract *)

CompareAnswered ==
    response.request.endpoint = "compare" /\ response.result.status = 200

Recommendations == response.result.recommendations

\* The active plans of the requested region, counted on the catalog itself.
Candidates ==
    { i \in 1..Len(planCatalog) :
        planCatalog[i].region = response.request.region /\ planCatalog[i].active }

\* C4: the returned recommendations are non-increasing in
\* estimatedAnnualSavings.
C4_RecommendationsNonIncreasing ==
    CompareAnswered
    => \A i, j \in 1..Len(Recommendations) :
          i < j => Recommendations[i].estimatedAnnualSavings
                   >= Recommendations[j].estimatedAnnualSavings

\* A response whose first recommendation saves more than its last and stood
\* behind it in the catalog: the sort moved it.
C4_Witness ==
    /\ CompareAnswered
    /\ Len(Recommendations) >= 3
    /\ Recommendations[1].estimatedAnnualSavings
         > Recommendations[Len(Recommendations)].estimatedAnnualSavings
    /\ Recommendations[1].planId > Recommendations[Len(Recommendations)].planId

\* C5: the number of recommendations is min(5, n), n the number of active
\* catalog plans of the requested region.
C5_RecommendationCount ==
    CompareAnswered
    => Len(Recommendations) = MathMin(5, Cardinality(Candidates))

\* Six candidates, five recommendations.
C5_Witness ==
    /\ CompareAnswered
    /\ Cardinality(Candidates) > 5
    /\ Len(Recommendations) = 5

\* The length in days of the window a compare request analyses.
WindowDays(req) == (endDateOf(req) - startDateOf(req)) \div 24

\* C6: estimatedAnnualSavings = max(0, (baseline - estimatedCost) * 365 /
\* windowDays), for the window that was analysed (stated times windowDays).
C6_SavingsAnnualisedByWindow ==
    CompareAnswered
    => LET req == response.request
           usageData == FindUsage(req.accountId, startDateOf(req), endDateOf(req))
       IN  \A i \in 1..Len(Recommendations) :
              LET rec == Recommendations[i]
                  estimatedCost == calculatePlanCost(planCatalog[rec.planId], usageData)
                  baseline == IF utilityAccount[req.accountId].provider # "null"
                              THEN calculateCurrentCost(usageData)
                              ELSE estimatedCost
              IN  rec.estimatedAnnualSavings * WindowDays(req)
                  = MathMax(0, (baseline - estimatedCost) * 365)

\* The usage series a compare request analyses.
AnalysedUsage ==
    FindUsage(response.request.accountId, startDateOf(response.request),
              endDateOf(response.request))

\* The estimated cost of the plan a recommendation names.
EstimatedCostOf(rec) == calculatePlanCost(planCatalog[rec.planId], AnalysedUsage)

\* The flat-rate approximation of the analysed usage.
FlatBaseline == calculateCurrentCost(AnalysedUsage)

\* C11: within one compare response every recommendation's savings are
\* computed against one and the same baseline, the flat-rate approximation of
\* the analysed usage, whatever the candidate plan costs (the annualisation is
\* the code's, times 4).
C11_OneFlatBaselinePerRequest ==
    CompareAnswered
    => \A i \in 1..Len(Recommendations) :
          Recommendations[i].estimatedAnnualSavings
          = MathMax(0, (FlatBaseline - EstimatedCostOf(Recommendations[i])) * 4)

\* C12: estimatedMonthlyCost = estimatedCost / (windowDays / 30) for the
\* window that was analysed (stated without division).
C12_MonthlyCostByWindow ==
    CompareAnswered
    => \A i \in 1..Len(Recommendations) :
          Recommendations[i].estimatedMonthlyCost.num * WindowDays(response.request)
          = EstimatedCostOf(Recommendations[i]) * 30
            * Recommendations[i].estimatedMonthlyCost.den

\* C13: every recommendation's estimatedAnnualSavings is >= 0, and is 0 for
\* every plan whose estimated cost is at least the baseline cost.
C13_SavingsNeverNegative ==
    CompareAnswered
    => \A i \in 1..Len(Recommendations) :
          /\ Recommendations[i].estimatedAnnualSavings >= 0
          /\ EstimatedCostOf(Recommendations[i]) >= FlatBaseline
                => Recommendations[i].estimatedAnnualSavings = 0

\* An account with a provider, a plan dearer than the baseline next to none
\* such: the dearer plan's savings are 0.
C13_Witness ==
    /\ CompareAnswered
    /\ utilityAccount[response.request.accountId].provider # "null"
    /\ \E i \in 1..Len(Recommendations) :
          /\ EstimatedCostOf(Recommendations[i]) > FlatBaseline
          /\ Recommendations[i].estimatedAnnualSavings = 0

\* The candidates in catalog order.
CandidatesInOrder ==
    SelectRows([i \in 1..Len(planCatalog) |-> i],
               [i \in 1..Len(planCatalog) |-> i \in Candidates])

\* C14: with an empty usage series the handler answers 200, every plan's
\* estimated cost and annual savings are 0, and the recommendations are the
\* first min(5, n) candidates in catalog order.
C14_EmptyUsageKeepsCatalogOrder ==
    (/\ response.request.endpoint = "compare"
     /\ response.request.userId # NoUser
     /\ AccountOf(response.request.accountId, response.request.userId)
     /\ AnalysedUsage = <<>>)
    => /\ response.result.status = 200
       /\ Len(Recommendations) = MathMin(5, Len(CandidatesInOrder))
       /\ \A i \in 1..Len(Recommendations) :
             /\ Recommendations[i].planId = CandidatesInOrder[i]
             /\ Recommendations[i].estimatedMonthlyCost.num = 0
             /\ Recommendations[i].estimatedAnnualCost = 0
             /\ Recommendations[i].estimatedAnnualSavings = 0

\* An empty series, six candidates of which both flat and tiered ones.
C14_Witness ==
    /\ CompareAnswered
    /\ AnalysedUsage = <<>>
    /\ Len(CandidatesInOrder) > 5
    /\ \E i, j \in 1..Len(Recommendations) :
          /\ Recommendations[i].planType = "fixed"
          /\ Recommendations[j].planType = "tiered"

\* The annual savings the handler computes for catalog row c.
SavingsOfRow(c) ==
    Comparison(planCatalog[c], AnalysedUsage,
               utilityAccount[response.request.accountId]).estimatedAnnualSavings

\* C15: every recommendation names an active plan of the requested region,
\* and no candidate is left out that saves more than a returned one: rows
\* that are inactive or of another region take no place in the ranking.
C15_OnlyActivePlansOfRegion ==
    CompareAnswered
    => /\ \A i \in 1..Len(Recommendations) :
             /\ planCatalog[Recommendations[i].planId].active
             /\ planCatalog[Recommendations[i].planId].region
                  = response.request.region
       /\ Len(Recommendations) = MathMin(5, Cardinality(Candidates))
       /\ \A c \in Candidates :
             (\A i \in 1..Len(Recommendations) : Recommendations[i].planId # c)
             => \A i \in 1..Len(Recommendations) :
                   SavingsOfRow(c) <= Recommendations[i].estimatedAnnualSavings

\* A catalog holding an inactive plan of the requested region that would save
\* more than every returned plan, and a plan of another region.
C15_Witness ==
    /\ CompareAnswered
    /\ Len(Recommendations) > 0
    /\ \E c \in 1..Len(planCatalog) :
          /\ ~planCatalog[c].active
          /\ planCatalog[c].region = response.request.region
          /\ \A i \in 1..Len(Recommendations) :
                SavingsOfRow(c) > Recommendations[i].estimatedAnnualSavings
    /\ \E c \in 1..Len(planCatalog) :
          planCatalog[c].region # response.request.region

\* The candidates that are not among the recommendations.
LeftOut ==
    { c \in Candidates :
        \A i \in 1..Len(Recommendations) : Recommendations[i].planId # c }

\* C25: the recommendations are the top of the ranking: no active plan of the
\* region that was left out saves more than a plan that was returned.
C25_RecommendationsAreTopOfRanking ==
    CompareAnswered
    => \A c \in LeftOut, i \in 1..Len(Recommendations) :
          SavingsOfRow(c) <= Recommendations[i].estimatedAnnualSavings

\* A plan is left out that saves less than every returned plan and stood
\* before one of them in the catalog.
C25_Witness ==
    /\ CompareAnswered
    /\ \E c \in LeftOut :
          /\ \A i \in 1..Len(Recommendations) :
                SavingsOfRow(c) < Recommendations[i].estimatedAnnualSavings
          /\ \E i \in 1..Len(Recommendations) : c < Recommendations[i].planId

\* The step answers the request that was answered last, with recommendations
\* both times.
AnsweredAgain ==
    /\ response'.request = response.request
    /\ response.result.status = 200
    /\ response'.result.status = 200

\* C26: a compare request, whatever its outcome, leaves the store as it was,
\* and a request that is answered again over the same store gets the same
\* recommendations.
C26_CompareHasNoSideEffects ==
    [][/\ store' = store
       /\ AnsweredAgain
           => response'.result.recommendations = response.result.recommendations]_vars

\* C26 as amended: a compare request, whatever its outcome, leaves the store
\* as it was, and a request that names both startDate and endDate and is
\* answered again over the same store gets the same recommendations.
C26_NoSideEffectsSameWindow ==
    [][/\ store' = store
       /\ (/\ AnsweredAgain
           /\ response.request.startDate # Undefined
           /\ response.request.endDate # Undefined)
           => response'.result.recommendations = response.result.recommendations]_vars

\* A request that names its window is answered after the clock has advanced,
\* hence after an earlier answer, with two plans of different savings.
C26_Witness ==
    /\ CompareAnswered
    /\ response.at > Today
    /\ response.request.startDate # Undefined
    /\ response.request.endDate # Undefined
    /\ Len(Recommendations) = 2
    /\ Recommendations[1].estimatedAnnualSavings
         > Recommendations[2].estimatedAnnualSavings

\* The account of the request has no provider.
NoProvider == utilityAccount[response.request.accountId].provider = "null"

\* C29: for an account without a provider every recommendation's savings are
\* 0, the recommendations are the first min(5, n) candidates in catalog order
\* whatever they cost, and currentPlan.estimatedMonthlyCost is the flat
\* estimate of the analysed usage over 3.
C29_NoProviderMeansNoSavings ==
    (CompareAnswered /\ NoProvider)
    => /\ Len(Recommendations) = MathMin(5, Len(CandidatesInOrder))
       /\ \A i \in 1..Len(Recommendations) :
             /\ Recommendations[i].estimatedAnnualSavings = 0
             /\ Recommendations[i].planId = CandidatesInOrder[i]
       /\ response.result.currentPlan.estimatedMonthlyCost
            = [num |-> FlatBaseline, den |-> 3]

\* An account without a provider and with usage: a plan is recommended ahead
\* of a cheaper one, and both are cheaper than the flat estimate.
C29_Witness ==
    /\ CompareAnswered
    /\ NoProvider
    /\ \E i, j \in 1..Len(Recommendations) :
          /\ i < j
          /\ EstimatedCostOf(Recommendations[i]) > EstimatedCostOf(Recommendations[j])
          /\ FlatBaseline > EstimatedCostOf(Recommendations[i])

-----------------------------------------------------------------------------
(* The routes' contract *)

\* C7: at most one pending SwitchAction per account, also when POST requests
\* for the account run concurrently.
C7_OnePendingSwitchPerAccount ==
    \A a \in DOMAIN utilityAccount : Len(PendingRequests(a)) <= 1

\* A request that passes the schema, the rate limit and the consent check.
WellFormed(req) ==
    /\ "valid" \in DOMAIN req => req.valid
    /\ "limited" \in DOMAIN req => ~req.limited
    /\ "consent" \in DOMAIN req => req.consent
    /\ "data" \in DOMAIN req => ImportValid(req)
    /\ "baseline" \in DOMAIN req => ReportValid(req)

\* A well-formed request of a user with a User row that names the account of
\* another user.
ForeignRequest(req) ==
    /\ req.endpoint # "none"
    /\ req.userId \in user
    /\ req.accountId \in DOMAIN utilityAccount
    /\ utilityAccount[req.accountId].userId # req.userId
    /\ WellFormed(req)

OwnedBy(rows, userId) ==
    \A i \in 1..Len(rows) : utilityAccount[rows[i].accountId].userId = userId

\* The request is answered 403, with nothing but the error.
ForeignAnswered403 ==
    ForeignRequest(response.request) => response.result = Json(403)

\* A list asked for without an accountId holds rows of the caller's accounts only.
ListsOwnRowsOnly ==
    /\ (response.request.endpoint = "GET /api/savings/report"
          /\ response.result.status = 200)
       => OwnedBy(response.result.reports, response.request.userId)
    /\ (response.request.endpoint = "GET /api/switch/request"
          /\ response.result.status = 200)
       => OwnedBy(response.result.switchRequests, response.request.userId)

\* The rows a step adds to a table belong to accounts of the user whose
\* request is answered by the step.
CreatesOwnRowsOnly ==
    /\ OwnedBy(SubSeq(usageHour', Len(usageHour) + 1, Len(usageHour')),
               response'.request.userId)
    /\ OwnedBy(SubSeq(savingsReport', Len(savingsReport) + 1, Len(savingsReport')),
               response'.request.userId)
    /\ OwnedBy(SubSeq(switchAction', Len(switchAction) + 1, Len(switchAction')),
               response'.request.userId)

\* C9: a request of user A that names an account A does not own is answered
\* 403 by every endpoint and neither returns nor creates a row of that account;
\* lists without an accountId return rows of A's accounts only.
C9_UserDataIsolation ==
    [][ForeignAnswered403' /\ ListsOwnRowsOnly' /\ CreatesOwnRowsOnly]_vars

-----------------------------------------------------------------------------
(* The estimator's contract *)

\* The calendar days (UTC dates) a usage series covers.
DistinctDays(usageData) ==
    Cardinality({ usageData[i].timestamp \div 24 : i \in 1..Len(usageData) })

InsufficientData == response.result.status = 400

\* The prediction handler got as far as reading the account's usage.
PredictionDecided ==
    /\ response.request.endpoint = "POST /api/usage/prediction"
    /\ response.result.status \in {200, 400}

\* C8: the prediction is refused for insufficient data exactly when the usage
\* series covers fewer than 7 distinct calendar days.
C8_InsufficientIffFewerThanSevenDays ==
    PredictionDecided
    => (InsufficientData
        <=> DistinctDays(FindUsage(response.request.accountId,
                                   now - DefaultWindowHours, Infinity)) < 7)

-----------------------------------------------------------------------------
(* The trend and prediction estimator *)

PredictionAnswered ==
    /\ response.request.endpoint = "POST /api/usage/prediction"
    /\ response.result.status = 200

\* The usage series a prediction request analyses.
AnalysedSeries ==
    FindUsage(response.request.accountId, now - DefaultWindowHours, Infinity)

\* A prediction request of an account's owner over a series that passes the
\* data check.
SeriesAccepted ==
    /\ response.request.endpoint = "POST /api/usage/prediction"
    /\ response.request.userId # NoUser
    /\ AccountOf(response.request.accountId, response.request.userId)
    /\ Len(AnalysedSeries) >= MinDataPoints

\* C16: for a series with fewer than 2 distinct days (one daily total) the
\* slope is 0, not NaN, and the trend label of every prediction is 'stable'.
C16_TrendOfSingleDayIsZero ==
    PredictionAnswered
    => (Len(dailyUsage(AnalysedSeries)) < 2
        => /\ response.result.analytics.monthlyTrend = Zero
           /\ \A k \in 1..Len(response.result.predictions) :
                 response.result.predictions[k].trend = "stable")

\* The mean of the daily totals of the observed dates that fall on weekday w.
WeekdayTotals(daily, w) ==
    LET rows == SelectRows(daily,
                    [k \in 1..Len(daily) |-> Weekday(daily[k].date) = w])
    IN  ArrayFrom([k \in 1..Len(rows) |-> rows[k].total])

\* C17: for each predicted day i, predictedKWh = max(0, A[w] + slope * i), w
\* the weekday of (last observed date + i days), A[w] the mean of the daily
\* totals of the observed dates that fall on weekday w (where there is one);
\* the figure is the response's, rounded to two decimals.
C17_PredictionUsesWeekdayAverage ==
    PredictionAnswered
    => LET series == AnalysedSeries
           daily == dailyUsage(series)
           lastDate == DateOf(series[Len(series)].timestamp)
           slope == response.result.analytics.monthlyTrend
       IN  \A i \in 1..Len(response.result.predictions) :
              LET totals == WeekdayTotals(daily, Weekday(lastDate + i))
              IN  totals # <<>>
                  => response.result.predictions[i].predictedKWh
                     = RoundCents(FMax(Zero, FAdd(Average(totals),
                                                  FMul(slope, FromInt(i)))))

\* C18: for every accepted series the handler answers with a prediction list
\* of exactly predictionDays entries, entry i dated i days after the date of
\* the last observed reading.
C18_OnePredictionPerDay ==
    SeriesAccepted
    => /\ response.result.status = 200
       /\ Len(response.result.predictions) = response.request.predictionDays
       /\ LET series == AnalysedSeries
          IN  \A i \in 1..Len(response.result.predictions) :
                 response.result.predictions[i].date
                 = DateOf(series[Len(series)].timestamp) + i

\* C19: in every prediction list every confidence is between 0.5 and 1 and
\* no confidence is larger than the one of the day before.
C19_ConfidenceNonIncreasing ==
    PredictionAnswered
    => LET predictions == response.result.predictions
       IN  /\ \A i \in 1..Len(predictions) :
                 /\ ~IsNaN(predictions[i].confidence)
                 /\ ~FLess(predictions[i].confidence, Decimal(1, 2))
                 /\ ~FLess(FromInt(1), predictions[i].confidence)
           /\ \A i \in 1..(Len(predictions) - 1) :
                 ~FLess(predictions[i].confidence, predictions[i + 1].confidence)

\* A list of 90 predictions whose last confidence is below its first.
C19_Witness ==
    /\ PredictionAnswered
    /\ Len(response.result.predictions) = 90
    /\ FLess(response.result.predictions[90].confidence,
             response.result.predictions[1].confidence)

\* C20: for a series of 2 or more days whose daily totals are all equal the
\* slope is exactly 0 and every prediction carries the label 'stable'.
C20_FlatSeriesHasZeroSlope ==
    PredictionAnswered
    => LET daily == dailyUsage(AnalysedSeries)
       IN  (/\ Len(daily) >= 2
            /\ \A k \in 1..Len(daily) : daily[k].total = daily[1].total)
           => /\ response.result.analytics.monthlyTrend = Zero
              /\ \A k \in 1..Len(response.result.predictions) :
                    response.result.predictions[k].trend = "stable"

-----------------------------------------------------------------------------
(* The write routes' contract *)

\* The step answers a signed-in caller's POST /api/switch/request whose
\* consent is false.
AnswersUnconsented ==
    /\ response' # response
    /\ response'.request.endpoint = "POST /api/switch/request"
    /\ response'.request.userId # NoUser
    /\ ~response'.request.consent

\* C21: a POST /api/switch/request of a signed-in caller whose consent is
\* false is answered 400 and creates no SwitchAction; a step that adds a
\* SwitchAction answers a request whose consent is true.
C21_ConsentRequired ==
    [][/\ AnswersUnconsented
           => response'.result = Json(400) /\ switchAction' = switchAction
       /\ switchAction' # switchAction
           => /\ response'.request.endpoint = "POST /api/switch/request"
              /\ response'.request.consent]_vars

\* A request that lacks nothing but consent (its owner, account and plan
\* exist and no request is pending) is refused, next to a store that holds a
\* SwitchAction.
C21_Witness ==
    /\ response.request.endpoint = "POST /api/switch/request"
    /\ ~response.request.consent
    /\ response.request.valid
    /\ AccountOf(response.request.accountId, response.request.userId)
    /\ PlanAvailable(response.request.planId)
    /\ PendingRequests(response.request.accountId) = <<>>
    /\ response.result.status = 400
    /\ switchAction # <<>>

\* The step answers a POST /api/usage/import with success.
ImportAccepted ==
    /\ response' # response
    /\ response'.request.endpoint = "POST /api/usage/import"
    /\ response'.result.status = 200

\* The usage rows a step adds to the store.
AddedUsage == SubSeq(usageHour', Len(usageHour) + 1, Len(usageHour'))

\* The store already holds a reading of the account at the timestamp.
AlreadyStored(row) ==
    \E j \in 1..Len(usageHour) :
        /\ usageHour[j].accountId = row.accountId
        /\ usageHour[j].timestamp = row.timestamp

AnswersNegativeBatch ==
    /\ response' # response
    /\ response'.request.endpoint = "POST /api/usage/import"
    /\ response'.request.userId # NoUser
    /\ \E i \in 1..Len(response'.request.data) : response'.request.data[i].kWh < 0

\* C23: an import batch of a signed-in caller that holds a reading of negative
\* kWh is answered 400 and leaves the stored readings as they were, the valid
\* readings of the batch included; every stored reading has kWh >= 0.
C23_NegativeKwhRejected ==
    [][/\ AnswersNegativeBatch
           => response'.result = Json(400) /\ usageHour' = usageHour
       /\ \A i \in 1..Len(usageHour') : usageHour'[i].kWh >= 0]_vars

\* The owner of an account imports a batch of one valid and one negative
\* reading into a store that holds a reading: the batch is refused whole.
C23_Witness ==
    /\ response.request.endpoint = "POST /api/usage/import"
    /\ AccountOf(response.request.accountId, response.request.userId)
    /\ Len(response.request.data) = 2
    /\ \E i \in 1..2 : response.request.data[i].kWh > 0
    /\ \E i \in 1..2 : response.request.data[i].kWh < 0
    /\ response.result.status = 400
    /\ usageHour # <<>>

-----------------------------------------------------------------------------
(* The middleware's contract *)

\* C27: a POST /api/plan/compare of a signed-in user that is within the rate
\* limit, passes CompareRequestSchema and names an account of the user is
\* answered 200 with currentPlan, recommendations and analysisPeriod: the
\* handler can still read the body the middleware validated.
C27_ValidatedBodyReachesHandler ==
    (/\ response.request.endpoint = "POST /api/plan/compare"
     /\ ~response.request.limited
     /\ response.request.valid
     /\ UserExists(response.request.userId)
     /\ AccountOf(response.request.accountId, response.request.userId))
    => /\ response.result.status = 200
       /\ {"currentPlan", "recommendations", "analysisPeriod"}
            \subseteq DOMAIN response.result

\* The call in hand: the suspended one, or the one that was answered.
CallInHand ==
    IF inflight # <<>> THEN inflight[1]
    ELSE [request |-> response.request, ran |-> response.ran, pc |-> "done",
          result |-> response.result]

Answered == inflight = <<>> /\ response # NoResponse

\* The place of a stage in the wrapper's order.
StageOrder(stage) ==
    CASE stage = "rateLimit" -> 1
      [] stage = "validateBody" -> 2
      [] stage = "validateQuery" -> 3
      [] stage = "handler" -> 4

Ran(call, stage) == \E i \in 1..Len(call.ran) : call.ran[i] = stage

\* The schema the route configures rejects the request.
FailsValidation(req) ==
    \/ req.route.validateBody /\ req.body = "invalid"
    \/ req.route.validateQuery /\ req.query = "invalid"

\* The request is JSON where a body schema is configured, and the limiter
\* gives a verdict.
WellReceived(req) ==
    /\ req.limiter # "throws"
    /\ req.route.validateBody => req.body # "malformed"

\* C28: the stages of a call run in the order rate limit, body schema, query
\* schema, handler, each at most once; the handler runs only when the limiter
\* let the request pass and the configured schemas accepted it; a rate-limited
\* request is answered 429 with nothing run but the limiter, a request that
\* fails a schema 400 without the handler, and a throwing handler 500.
C28_HandlerRunsLastAndOnce ==
    (inflight # <<>> \/ response # NoResponse)
    => LET call == CallInHand
           req == call.request
       IN  /\ \A i, j \in 1..Len(call.ran) :
                 i < j => StageOrder(call.ran[i]) < StageOrder(call.ran[j])
           /\ Ran(call, "handler")
               => /\ Ran(call, "rateLimit") /\ req.limiter = "ok"
                  /\ req.route.validateBody
                      => Ran(call, "validateBody") /\ req.body = "valid"
                  /\ req.route.validateQuery
                      => Ran(call, "validateQuery") /\ req.query = "valid"
           /\ (Answered /\ req.limiter = "limited")
               => call.result = Json(429) /\ call.ran = <<"rateLimit">>
           /\ (Answered /\ req.limiter = "ok" /\ WellReceived(req)
                  /\ FailsValidation(req))
               => call.result = Json(400) /\ ~Ran(call, "handler")
           /\ (Answered /\ Ran(call, "handler") /\ req.handler = "throws")
               => call.result = Json(500)

\* A request passed the limiter and the body schema, and its handler threw.
C28_Witness ==
    /\ Answered
    /\ response.ran = <<"rateLimit", "validateBody", "handler">>
    /\ response.request.handler = "throws"
    /\ response.result = Json(500)

====
